---- MODULE Spec2Model ----
(***************************************************************************)
(* Booking reservation engine of the SofCar API (src/app.py).              *)
(*                                                                         *)
(* State: the car and booking tables of the record store, the in-memory    *)
(* booking_locks and rate_limit_storage dictionaries, the wall clock, and  *)
(* for every request worker its position in create_booking() together     *)
(* with the handler's local variables.  Every step between two accesses to *)
(* shared state (a dictionary operation or a record-store call) is one     *)
(* action, so that request workers interleave as threads do.               *)
(*                                                                         *)
(* Dates are day numbers; 'YYYY-MM-DD' strings are ordered as their dates. *)
(***************************************************************************)
EXTENDS Integers, Sequences, FiniteSets, TLC

VARIABLES supabase, cars, bookings, booking_locks, rate_limit_storage, now,
          pc, req, car, ret, resp, booking, started,
          faults,   \* history: the record-store calls that failed for the
                    \* request a worker is serving
          admin,    \* the admin session: the request being served or served
                    \* last, the handler's position, and its response
          avail,    \* GET /cars/<id>/availability: the request being served or
                    \* served last, the handler's position, and its response
          count     \* per worker, the value `count += 1` has read and not yet
                    \* stored back

vars == <<supabase, cars, bookings, booking_locks, rate_limit_storage, now,
          pc, req, car, ret, resp, booking, started, faults, admin, avail, count>>

(*************************** program constants *****************************)

rate_limit_window == 3600

rate_limit_max_requests == 3

MaxRentalDays == 30

MaxAdvanceDays == 365

\* Config.MIN_RENTAL_DAYS (config.py), read by validators.py only
MIN_RENTAL_DAYS == 5

(******************************* bounds ************************************)

\* request workers (threads) serving create_booking
Workers == {"w1", "w2"}

\* car ids that have a row in the cars table, and one well-formed id without
CarRows == {"A", "B"}

CarIds == CarRows \cup {"X"}

\* client origins
IPs == {"ip1", "ip2"}

\* the date of datetime.now().date() during the run, as a day number
Today == 1

\* the last date a request may carry
MaxDay == 3

\* requests started in one run of the sequential specification
MaxSeqRequests == 5

\* the clock is observed at k * rate_limit_window + j, k <= MaxWindows,
\* j <= MaxSkew
MaxWindows == 1

MaxSkew == 1

Dates == (Today - 1)..MaxDay

\* (start_date, end_date) of a request body: every ordered pair, and one
\* with start_date = end_date
InputRanges == {r \in Dates \X Dates : r[1] < r[2] \/ (r[1] = r[2] /\ r[1] = MaxDay)}

Times == {k * rate_limit_window + j : k \in 0..MaxWindows, j \in 0..MaxSkew}

(****************************** helpers ************************************)

None == "None"

HoldingStatuses == {"confirmed", "pending"}

EmailOutcomes == {"sent", "failed", "raise"}

\* the statuses of Config.VALID_BOOKING_STATUSES
valid_statuses_config == {"pending", "confirmed", "cancelled", "completed", "deleted"}

valid_statuses == {"pending", "confirmed", "cancelled", "completed"}

\* body fields a client may add to the ones create_booking reads
NoExtra == [status |-> None, deposit_status |-> None]

NoRequest == [ip |-> None, car_id |-> None, start_date |-> 0, end_date |-> 0,
              extra |-> NoExtra]

\* no availability request has been made
NoAvail == [pc |-> "idle", car_id |-> None, start_date |-> 0, end_date |-> 0,
            price_per_day |-> 0, code |-> 0, is_available |-> FALSE,
            total_price |-> 0, rental_days |-> 0, error |-> None]

\* no admin request has been made
NoAdmin == [pc |-> "idle", op |-> None, booking_id |-> 0, car_id |-> None,
            data |-> <<>>, code |-> 0]

\* the local `car` of create_booking before the car is fetched
NoCar == [is_active |-> FALSE, price_per_day |-> 0]

NoResponse == [code |-> 0, error |-> None, details |-> None]

Response(code, error) == [code |-> code, error |-> error, details |-> None]

\* `except Exception as e` of create_booking: 500 with details = str(e)
Failed(details) ==
    [code |-> 500, error |-> "Failed to create booking", details |-> details]

price_per_day(c) == IF c = "A" THEN 50 ELSE 80

\* dict[key] = value
DictSet(d, k, v) == [x \in DOMAIN d \cup {k} |-> IF x = k THEN v ELSE d[x]]

\* del dict[key]
DictDel(d, k) == [x \in DOMAIN d \ {k} |-> d[x]]

\* the date checks of validate_booking_data; TRUE when no BadRequest is raised
validate_booking_data(data) ==
    /\ ~(data.start_date >= data.end_date)
    /\ ~(data.start_date < Today)
    /\ ~(data.end_date - data.start_date > MaxRentalDays)
    /\ ~(data.start_date - Today > MaxAdvanceDays)

calculate_total_price(car_price, start_date, end_date) ==
    LET days == end_date - start_date
    IN  car_price * days

\* the overlap query without the status filter
OverlapQuery_anystatus(bk, car_id, start_date, end_date) ==
    {i \in 1..Len(bk) :
        /\ bk[i].car_id = car_id
        /\ bk[i].start_date <= end_date
        /\ bk[i].end_date > start_date}

\* the rows selected by the overlap query:
\*   .eq("car_id", car_id).in_("status", ["confirmed", "pending"])
\*   .lte("start_date", end_date).gt("end_date", start_date)
OverlapQuery(bk, car_id, start_date, end_date) ==
    {i \in 1..Len(bk) :
        /\ bk[i].car_id = car_id
        /\ bk[i].status \in HoldingStatuses
        /\ bk[i].start_date <= end_date
        /\ bk[i].end_date > start_date}

\* (is_available, error_msg); fails = the query raised an exception
check_car_availability_atomic(bk, car_id, start_date, end_date, fails) ==
    IF fails
    THEN [ok |-> FALSE, msg |-> "Error checking availability"]
    ELSE IF OverlapQuery(bk, car_id, start_date, end_date) # {}
         THEN [ok |-> FALSE, msg |-> "Car is booked for overlapping dates"]
         ELSE [ok |-> TRUE, msg |-> None]

\* the bucket table after the lazy creation and the window reset of
\* check_rate_limit
RateLimitRefresh(rls, ip, current_time) ==
    LET fresh == [count |-> 0, reset_time |-> current_time + rate_limit_window]
        s1 == IF ip \notin DOMAIN rls THEN DictSet(rls, ip, fresh) ELSE rls
    IN  IF current_time > s1[ip].reset_time THEN DictSet(s1, ip, fresh) ELSE s1

\* the limit test with > for >=
RateLimitExceeded_gt(bucket) == bucket.count > rate_limit_max_requests

RateLimitExceeded(bucket) == bucket.count >= rate_limit_max_requests

(******************************* Init **************************************)

Init ==
    /\ supabase \in BOOLEAN
    /\ cars = [c \in CarRows |-> [is_active |-> TRUE, price_per_day |-> price_per_day(c)]]
    /\ bookings = <<>>
    /\ booking_locks = <<>>
    /\ rate_limit_storage = <<>>
    /\ now = 0
    /\ pc = [w \in Workers |-> "idle"]
    /\ req = [w \in Workers |-> NoRequest]
    /\ car = [w \in Workers |-> NoCar]
    /\ ret = [w \in Workers |-> NoResponse]
    /\ resp = [w \in Workers |-> NoResponse]
    /\ booking = [w \in Workers |-> 0]
    /\ started = 0
    /\ faults = [w \in Workers |-> {}]
    /\ admin = NoAdmin
    /\ avail = NoAvail
    /\ count = [w \in Workers |-> 0]

(************************** create_booking *********************************)

\* a POST /bookings request reaches worker w, which is serving no request
Begin(w, ip, car_id, start_date, end_date, extra) ==
    /\ pc[w] \in {"idle", "done"}
    /\ pc' = [pc EXCEPT ![w] = "rate_test"]
    /\ req' = [req EXCEPT ![w] = [ip |-> ip, car_id |-> car_id,
                                  start_date |-> start_date, end_date |-> end_date,
                                  extra |-> extra]]
    /\ resp' = [resp EXCEPT ![w] = NoResponse]
    /\ booking' = [booking EXCEPT ![w] = 0]
    /\ started' = started + 1
    /\ faults' = [faults EXCEPT ![w] = {}]
    /\ UNCHANGED <<supabase, cars, bookings, booking_locks, rate_limit_storage,
                   now, car, ret, admin, avail, count>>

\* the response leaves the handler
Return(w, r) ==
    /\ pc' = [pc EXCEPT ![w] = "done"]
    /\ resp' = [resp EXCEPT ![w] = r]
    /\ ret' = [ret EXCEPT ![w] = NoResponse]
    /\ car' = [car EXCEPT ![w] = NoCar]

\* a return or raise inside the try block: the finally clause runs next
Leave(w, r) ==
    /\ pc' = [pc EXCEPT ![w] = "release_test"]
    /\ ret' = [ret EXCEPT ![w] = r]

\* check_rate_limit up to the limit test
RateTest(w) ==
    /\ pc[w] = "rate_test"
    /\ LET ip == req[w].ip
           rls == RateLimitRefresh(rate_limit_storage, ip, now)
       IN  /\ rate_limit_storage' = rls
           /\ IF RateLimitExceeded(rls[ip])
              THEN Return(w, Response(429, "Rate limit exceeded"))
              ELSE /\ pc' = [pc EXCEPT ![w] = "rate_load"]
                   /\ UNCHANGED <<resp, ret, car>>
    /\ UNCHANGED <<supabase, cars, bookings, booking_locks, now, req, booking, started, faults, admin, avail, count>>

\* rate_limit_storage[client_ip]['count'] += 1, the read of the count
RateLoad(w) ==
    /\ pc[w] = "rate_load"
    /\ count' = [count EXCEPT ![w] = rate_limit_storage[req[w].ip].count]
    /\ pc' = [pc EXCEPT ![w] = "rate_inc"]
    /\ UNCHANGED <<supabase, cars, bookings, booking_locks, rate_limit_storage,
                   now, req, car, ret, resp, booking, started, faults, admin, avail>>

\* rate_limit_storage[client_ip]['count'] += 1, the store of the sum
RateInc(w) ==
    /\ pc[w] = "rate_inc"
    /\ rate_limit_storage' =
          [rate_limit_storage EXCEPT ![req[w].ip].count = count[w] + 1]
    /\ count' = [count EXCEPT ![w] = 0]
    /\ pc' = [pc EXCEPT ![w] = "lock_test"]
    /\ UNCHANGED <<supabase, cars, bookings, booking_locks, now, req, car, ret,
                   resp, booking, started, faults, admin, avail>>

\* LockTest leaving through the finally clause when the car is locked
LockTest_release(w) ==
    /\ pc[w] = "lock_test"
    /\ IF ~validate_booking_data(req[w])
       THEN Return(w, Response(400, "BadRequest"))
       ELSE IF ~supabase
       THEN Return(w, Response(503, "Database not available"))
       ELSE IF req[w].car_id \in DOMAIN booking_locks
       THEN /\ Leave(w, Response(409, "Car is being booked by another user"))
            /\ UNCHANGED <<resp, car>>
       ELSE /\ pc' = [pc EXCEPT ![w] = "lock_set"]
            /\ UNCHANGED <<resp, ret, car>>
    /\ UNCHANGED <<supabase, cars, bookings, booking_locks, rate_limit_storage,
                   now, req, booking, started, faults, admin, avail, count>>

\* LockTest with one lock for all cars
LockTest_global(w) ==
    /\ pc[w] = "lock_test"
    /\ IF ~validate_booking_data(req[w])
       THEN Return(w, Response(400, "BadRequest"))
       ELSE IF ~supabase
       THEN Return(w, Response(503, "Database not available"))
       ELSE IF DOMAIN booking_locks # {}
       THEN Return(w, Response(409, "Car is being booked by another user"))
       ELSE /\ pc' = [pc EXCEPT ![w] = "lock_set"]
            /\ UNCHANGED <<resp, ret, car>>
    /\ UNCHANGED <<supabase, cars, bookings, booking_locks, rate_limit_storage,
                   now, req, booking, started, faults, admin, avail, count>>

\* validation, the record-store handle, and `if car_id in booking_locks`
LockTest(w) ==
    /\ pc[w] = "lock_test"
    /\ IF ~validate_booking_data(req[w])
       THEN Return(w, Response(400, "BadRequest"))
       ELSE IF ~supabase
       THEN Return(w, Response(503, "Database not available"))
       ELSE IF req[w].car_id \in DOMAIN booking_locks
       THEN Return(w, Response(409, "Car is being booked by another user"))
       ELSE /\ pc' = [pc EXCEPT ![w] = "lock_set"]
            /\ UNCHANGED <<resp, ret, car>>
    /\ UNCHANGED <<supabase, cars, bookings, booking_locks, rate_limit_storage,
                   now, req, booking, started, faults, admin, avail, count>>

\* booking_locks[car_id] = time.time()
LockSet(w) ==
    /\ pc[w] = "lock_set"
    /\ booking_locks' = DictSet(booking_locks, req[w].car_id, now)
    /\ pc' = [pc EXCEPT ![w] = "fetch_car"]
    /\ UNCHANGED <<supabase, cars, bookings, rate_limit_storage, now, req, car,
                   ret, resp, booking, started, faults, admin, avail, count>>

\* FetchCar answering 404 without running the finally clause
FetchCar_return(w, fails) ==
    /\ pc[w] = "fetch_car"
    /\ IF fails
       THEN Leave(w, Failed("record store error")) /\ UNCHANGED <<car, resp>>
       ELSE IF req[w].car_id \notin DOMAIN cars \/ ~cars[req[w].car_id].is_active
       THEN Return(w, Response(404, "Car not found"))
       ELSE /\ car' = [car EXCEPT ![w] = cars[req[w].car_id]]
            /\ pc' = [pc EXCEPT ![w] = "check_avail"]
            /\ UNCHANGED <<ret, resp>>
    /\ faults' = [faults EXCEPT ![w] = IF fails THEN @ \cup {"cars"} ELSE @]
    /\ UNCHANGED <<supabase, cars, bookings, booking_locks, rate_limit_storage,
                   now, req, booking, started, admin, avail, count>>

\* select * from cars where id = car_id and is_active
FetchCar(w, fails) ==
    /\ pc[w] = "fetch_car"
    /\ IF fails
       THEN Leave(w, Failed("record store error")) /\ UNCHANGED car
       ELSE IF req[w].car_id \notin DOMAIN cars \/ ~cars[req[w].car_id].is_active
       THEN Leave(w, Response(404, "Car not found")) /\ UNCHANGED car
       ELSE /\ car' = [car EXCEPT ![w] = cars[req[w].car_id]]
            /\ pc' = [pc EXCEPT ![w] = "check_avail"]
            /\ UNCHANGED ret
    /\ faults' = [faults EXCEPT ![w] = IF fails THEN @ \cup {"cars"} ELSE @]
    /\ UNCHANGED <<supabase, cars, bookings, booking_locks, rate_limit_storage,
                   now, req, resp, booking, started, admin, avail, count>>

\* the availability check inside the lock
CheckAvail(w, fails) ==
    /\ pc[w] = "check_avail"
    /\ LET r == check_car_availability_atomic(bookings, req[w].car_id,
                    req[w].start_date, req[w].end_date, fails)
       IN  IF ~r.ok
           THEN Leave(w, Response(409, r.msg))
           ELSE /\ pc' = [pc EXCEPT ![w] = "insert"]
                /\ UNCHANGED ret
    /\ faults' = [faults EXCEPT ![w] = IF fails THEN @ \cup {"overlap query"} ELSE @]
    /\ UNCHANGED <<supabase, cars, bookings, booking_locks, rate_limit_storage,
                   now, req, car, resp, booking, started, admin, avail, count>>

\* booking_data taking status and deposit_status from the request body
BookingData_client(w) ==
    [car_id |-> req[w].car_id,
     start_date |-> req[w].start_date,
     end_date |-> req[w].end_date,
     total_price |-> calculate_total_price(car[w].price_per_day,
                                           req[w].start_date, req[w].end_date),
     status |-> IF req[w].extra.status # None
                THEN req[w].extra.status ELSE "pending",
     deposit_status |-> IF req[w].extra.deposit_status # None
                        THEN req[w].extra.deposit_status ELSE "pending",
     ip_address |-> req[w].ip,
     notes |-> ""]

\* booking_data, the row built from the validated data and the fetched car;
\* the local rental_days is computed next to total_price but is not a key
\* of booking_data
BookingData(w) ==
    [car_id |-> req[w].car_id,
     start_date |-> req[w].start_date,
     end_date |-> req[w].end_date,
     total_price |-> calculate_total_price(car[w].price_per_day,
                                           req[w].start_date, req[w].end_date),
     status |-> "pending",
     deposit_status |-> "pending",
     ip_address |-> req[w].ip,
     notes |-> ""]

\* insert into bookings; outcome is "ok", "raise" or "nodata"
InsertBooking(w, outcome) ==
    /\ pc[w] = "insert"
    /\ IF outcome = "ok"
       THEN /\ bookings' = Append(bookings, BookingData(w))
            /\ booking' = [booking EXCEPT ![w] = Len(bookings) + 1]
            /\ pc' = [pc EXCEPT ![w] = "emails"]
            /\ UNCHANGED ret
       ELSE /\ Leave(w, IF outcome = "raise" THEN Failed("record store error")
                                              ELSE Failed("no data returned"))
            /\ UNCHANGED <<bookings, booking>>
    /\ faults' = [faults EXCEPT ![w] = IF outcome = "ok" THEN @ ELSE @ \cup {"insert"}]
    /\ UNCHANGED <<supabase, cars, booking_locks, rate_limit_storage, now, req,
                   car, resp, started, admin, avail, count>>

\* the two notification emails inside try/except, then `return ..., 201`;
\* outcome tells whether the senders returned True, returned False or raised
SendEmails(w, outcome) ==
    /\ pc[w] = "emails"
    /\ outcome \in EmailOutcomes
    /\ Leave(w, Response(201, None))
    /\ UNCHANGED <<supabase, cars, bookings, booking_locks, rate_limit_storage,
                   now, req, car, resp, booking, started, faults, admin, avail, count>>

\* a finally clause that deletes nothing
ReleaseTest_skip(w) ==
    /\ pc[w] = "release_test"
    /\ Return(w, ret[w])
    /\ UNCHANGED <<supabase, cars, bookings, booking_locks, rate_limit_storage,
                   now, req, booking, started, faults, admin, avail, count>>

\* finally: `if car_id in booking_locks`
ReleaseTest(w) ==
    /\ pc[w] = "release_test"
    /\ IF req[w].car_id \in DOMAIN booking_locks
       THEN /\ pc' = [pc EXCEPT ![w] = "release_del"]
            /\ UNCHANGED <<resp, ret, car>>
       ELSE Return(w, ret[w])
    /\ UNCHANGED <<supabase, cars, bookings, booking_locks, rate_limit_storage,
                   now, req, booking, started, faults, admin, avail, count>>

\* finally: `del booking_locks[car_id]`; a missing key raises KeyError, which
\* replaces the pending return and is answered by `except Exception`
ReleaseDel(w) ==
    /\ pc[w] = "release_del"
    /\ IF req[w].car_id \in DOMAIN booking_locks
       THEN /\ booking_locks' = DictDel(booking_locks, req[w].car_id)
            /\ Return(w, ret[w])
       ELSE /\ UNCHANGED booking_locks
            /\ Return(w, Failed("KeyError"))
    /\ UNCHANGED <<supabase, cars, bookings, rate_limit_storage, now, req,
                   booking, started, faults, admin, avail, count>>

(***************************** admin ***************************************)

\* the response to an admin request, the handler being left
AdminDone(op, booking_id, car_id, data, code) ==
    admin' = [pc |-> "idle", op |-> op, booking_id |-> booking_id,
              car_id |-> car_id, data |-> data, code |-> code]

\* table.update(update_data).eq('id', ...): the row with the given columns
\* replaced
Patch(row, update_data) ==
    [f \in DOMAIN row |-> IF f \in DOMAIN update_data THEN update_data[f] ELSE row[f]]

\* the allowed fields with car_id among them
allowed_fields_car == {"status", "deposit_status", "notes", "car_id"}

allowed_fields == {"status", "deposit_status", "notes"}

valid_deposit_statuses == {"pending", "paid", "refunded"}

\* PUT /admin/bookings/<id> with the JSON body data; fails = the update or
\* the fetch after it raised
admin_update_booking(booking_id, data, fails) ==
    /\ admin.pc = "idle"
    /\ LET update_data == [f \in DOMAIN data \cap allowed_fields |-> data[f]]
           code ==
             IF ~supabase THEN 503
             ELSE IF booking_id \notin DOMAIN bookings THEN 404
             ELSE IF DOMAIN data = {} THEN 400
             ELSE IF DOMAIN update_data = {} THEN 400
             ELSE IF "status" \in DOMAIN update_data
                     /\ update_data.status \notin valid_statuses THEN 400
             ELSE IF "deposit_status" \in DOMAIN update_data
                     /\ update_data.deposit_status \notin valid_deposit_statuses THEN 400
             ELSE IF fails THEN 500
             ELSE 200
       IN  /\ IF code = 200
              THEN bookings' = [bookings EXCEPT ![booking_id] = Patch(@, update_data)]
              ELSE UNCHANGED bookings
           /\ AdminDone("admin_update_booking", booking_id, None, data, code)
    /\ UNCHANGED <<supabase, cars, booking_locks, rate_limit_storage, now, pc,
                   req, car, ret, resp, booking, started, faults, avail, count>>

\* soft_delete_booking storing "cancelled"
soft_delete_booking_cancel(booking_id) ==
    /\ booking_id \in DOMAIN bookings
    /\ bookings' = [bookings EXCEPT ![booking_id].status = "cancelled"]

\* DatabaseService.soft_delete_booking: the update of the row
soft_delete_booking(booking_id) ==
    /\ booking_id \in DOMAIN bookings
    /\ bookings' = [bookings EXCEPT ![booking_id].status = "deleted"]

\* PATCH /bookings/<id>: the soft-delete route, which requires the body
\* {"status": "deleted"} and answers 400 for a booking already deleted
admin_soft_delete_booking(booking_id, data) ==
    /\ admin.pc = "idle"
    /\ LET code ==
             IF ~supabase THEN 503
             ELSE IF booking_id \notin DOMAIN bookings THEN 404
             ELSE IF ~("status" \in DOMAIN data /\ data.status = "deleted") THEN 400
             ELSE IF bookings[booking_id].status = "deleted" THEN 400
             ELSE 200
       IN  /\ IF code = 200
              THEN soft_delete_booking(booking_id)
              ELSE UNCHANGED bookings
           /\ AdminDone("admin_soft_delete_booking", booking_id, None, data, code)
    /\ UNCHANGED <<supabase, cars, booking_locks, rate_limit_storage, now, pc,
                   req, car, ret, resp, booking, started, faults, avail, count>>

\* PUT /admin/cars/<car_id> with the JSON body car_data: the car is fetched
\* and the merged, validated record is written back
admin_update_car(car_id, car_data) ==
    /\ admin.pc = "idle"
    /\ LET code ==
             IF ~supabase THEN 503
             ELSE IF car_id \notin DOMAIN cars THEN 404
             ELSE IF DOMAIN car_data = {} THEN 400
             ELSE 200
       IN  /\ IF code = 200
              THEN cars' = [cars EXCEPT ![car_id] = Patch(@, car_data)]
              ELSE UNCHANGED cars
           /\ AdminDone("admin_update_car", 0, car_id, car_data, code)
    /\ UNCHANGED <<supabase, bookings, booking_locks, rate_limit_storage, now,
                   pc, req, car, ret, resp, booking, started, faults, avail, count>>

\* DELETE /admin/cars/<car_id>: the handle and `Check if car exists`
admin_delete_car(car_id) ==
    /\ admin.pc = "idle"
    /\ IF ~supabase
       THEN AdminDone("admin_delete_car", 0, car_id, <<>>, 503)
       ELSE IF car_id \notin DOMAIN cars
       THEN AdminDone("admin_delete_car", 0, car_id, <<>>, 404)
       ELSE admin' = [pc |-> "check_bookings", op |-> "admin_delete_car",
                      booking_id |-> 0, car_id |-> car_id, data |-> <<>>,
                      code |-> 0]
    /\ UNCHANGED <<supabase, cars, bookings, booking_locks, rate_limit_storage,
                   now, pc, req, car, ret, resp, booking, started, faults, avail, count>>

\* the bookings of the car with status confirmed or pending
ExistingBookings(bk, car_id) ==
    {i \in 1..Len(bk) : bk[i].car_id = car_id /\ bk[i].status \in HoldingStatuses}

\* admin_delete_car: `Check for existing bookings`
admin_delete_car_check ==
    /\ admin.pc = "check_bookings"
    /\ IF ExistingBookings(bookings, admin.car_id) # {}
       THEN AdminDone("admin_delete_car", 0, admin.car_id, <<>>, 409)
       ELSE admin' = [admin EXCEPT !.pc = "delete"]
    /\ UNCHANGED <<supabase, cars, bookings, booking_locks, rate_limit_storage,
                   now, pc, req, car, ret, resp, booking, started, faults, avail, count>>

\* admin_delete_car: `Delete car record`; fails = the delete returned no data
\* or raised
admin_delete_car_delete(fails) ==
    /\ admin.pc = "delete"
    /\ IF fails \/ admin.car_id \notin DOMAIN cars
       THEN /\ UNCHANGED cars
            /\ AdminDone("admin_delete_car", 0, admin.car_id, <<>>, 500)
       ELSE /\ cars' = DictDel(cars, admin.car_id)
            /\ AdminDone("admin_delete_car", 0, admin.car_id, <<>>, 200)
    /\ UNCHANGED <<supabase, bookings, booking_locks, rate_limit_storage, now,
                   pc, req, car, ret, resp, booking, started, faults, avail, count>>

(************************* get_car_availability ****************************)

\* the response to an availability request, the handler being left
AvailDone(code, is_available, total_price, rental_days, error) ==
    avail' = [avail EXCEPT !.pc = "idle", !.code = code,
                           !.is_available = is_available,
                           !.total_price = total_price,
                           !.rental_days = rental_days, !.error = error]

\* the availability request as it enters the handler
AvailRequest(car_id, start_date, end_date) ==
    [NoAvail EXCEPT !.car_id = car_id, !.start_date = start_date,
                    !.end_date = end_date]

\* get_car_availability answering 409 while the car's lock entry is present
get_car_availability_locked(car_id, start_date, end_date, fails) ==
    /\ avail.pc = "idle"
    /\ LET a == AvailRequest(car_id, start_date, end_date)
       IN  IF ~supabase
           THEN avail' = [a EXCEPT !.code = 503, !.error = "Database not available"]
           ELSE IF car_id \in DOMAIN booking_locks
           THEN avail' = [a EXCEPT !.code = 409,
                                   !.error = "Car is being booked by another user"]
           ELSE IF fails
           THEN avail' = [a EXCEPT !.code = 500, !.error = "Failed to check availability"]
           ELSE IF car_id \notin DOMAIN cars \/ ~cars[car_id].is_active
           THEN avail' = [a EXCEPT !.code = 404, !.error = "Car not found"]
           ELSE avail' = [a EXCEPT !.pc = "check",
                                   !.price_per_day = cars[car_id].price_per_day]
    /\ UNCHANGED <<supabase, cars, bookings, booking_locks, rate_limit_storage,
                   now, pc, req, car, ret, resp, booking, started, faults, admin, count>>

\* GET /cars/<car_id>/availability?start_date=..&end_date=..: the handle and
\* the fetch of the active car; fails = the fetch raised
get_car_availability(car_id, start_date, end_date, fails) ==
    /\ avail.pc = "idle"
    /\ LET a == AvailRequest(car_id, start_date, end_date)
       IN  IF ~supabase
           THEN avail' = [a EXCEPT !.code = 503, !.error = "Database not available"]
           ELSE IF fails
           THEN avail' = [a EXCEPT !.code = 500, !.error = "Failed to check availability"]
           ELSE IF car_id \notin DOMAIN cars \/ ~cars[car_id].is_active
           THEN avail' = [a EXCEPT !.code = 404, !.error = "Car not found"]
           ELSE avail' = [a EXCEPT !.pc = "check",
                                   !.price_per_day = cars[car_id].price_per_day]
    /\ UNCHANGED <<supabase, cars, bookings, booking_locks, rate_limit_storage,
                   now, pc, req, car, ret, resp, booking, started, faults, admin, count>>

\* get_car_availability: the availability check and the result; fails = the
\* overlap query raised
get_car_availability_check(fails) ==
    /\ avail.pc = "check"
    /\ LET r == check_car_availability_atomic(bookings, avail.car_id,
                    avail.start_date, avail.end_date, fails)
       IN  IF r.ok
           THEN AvailDone(200, TRUE,
                    calculate_total_price(avail.price_per_day, avail.start_date,
                                          avail.end_date),
                    avail.end_date - avail.start_date, None)
           ELSE AvailDone(200, FALSE, 0, 0, r.msg)
    /\ UNCHANGED <<supabase, cars, bookings, booking_locks, rate_limit_storage,
                   now, pc, req, car, ret, resp, booking, started, faults, admin, count>>

(****************************** clock **************************************)

Tick ==
    /\ \E t \in Times : t > now /\ now' = t
    /\ UNCHANGED <<supabase, cars, bookings, booking_locks, rate_limit_storage,
                   pc, req, car, ret, resp, booking, started, faults, admin, avail, count>>

(*************************** specifications ********************************)

Step(w) ==
    \/ RateTest(w)
    \/ RateLoad(w)
    \/ RateInc(w)
    \/ LockTest(w)
    \/ LockSet(w)
    \/ \E fails \in BOOLEAN : FetchCar(w, fails)
    \/ \E fails \in BOOLEAN : CheckAvail(w, fails)
    \/ \E outcome \in {"ok", "raise", "nodata"} : InsertBooking(w, outcome)
    \/ \E outcome \in EmailOutcomes : SendEmails(w, outcome)
    \/ ReleaseTest(w)
    \/ ReleaseDel(w)

\* two request workers, one request each, run concurrently
Next ==
    \/ \E w \in Workers, c \in CarIds, r \in InputRanges :
          pc[w] = "idle" /\ Begin(w, "ip1", c, r[1], r[2], NoExtra)
    \/ \E w \in Workers : Step(w)

Spec == Init /\ [][Next]_vars

\* two request workers, one request each, for car A or an id without a row,
\* for one day from Today or for an empty range
NextLive ==
    \/ \E w \in Workers, c \in {"A", "X"},
          r \in {<<Today, Today + 1>>, <<Today + 1, Today + 1>>} :
          pc[w] = "idle" /\ Begin(w, "ip1", c, r[1], r[2], NoExtra)
    \/ \E w \in Workers : Step(w)

\* every request worker that has a step to take takes one in the end: the
\* server runs each started worker, and the record-store and email calls
\* return (with a result or an exception)
SpecLive == Init /\ [][NextLive]_vars /\ \A w \in Workers : WF_vars(Step(w))

\* a booking made earlier, found in the table when the process starts
SeedRow(c, r) ==
    [car_id |-> c, start_date |-> r[1], end_date |-> r[2],
     total_price |-> calculate_total_price(price_per_day(c), r[1], r[2]),
     status |-> "confirmed", deposit_status |-> "pending", ip_address |-> "ip2",
     notes |-> ""]

SeedTables ==
    {<<>>} \cup {<<SeedRow("A", r)>> : r \in {x \in InputRanges : validate_booking_data(
                      [start_date |-> x[1], end_date |-> x[2]])}}

InitPair ==
    /\ supabase \in BOOLEAN
    /\ cars = [c \in CarRows |-> [is_active |-> TRUE, price_per_day |-> price_per_day(c)]]
    /\ bookings \in SeedTables
    /\ booking_locks = <<>>
    /\ rate_limit_storage = <<>>
    /\ now = 0
    /\ pc = [w \in Workers |-> "idle"]
    /\ req = [w \in Workers |-> NoRequest]
    /\ car = [w \in Workers |-> NoCar]
    /\ ret = [w \in Workers |-> NoResponse]
    /\ resp = [w \in Workers |-> NoResponse]
    /\ booking = [w \in Workers |-> 0]
    /\ started = 0
    /\ faults = [w \in Workers |-> {}]
    /\ admin = NoAdmin
    /\ avail = NoAvail
    /\ count = [w \in Workers |-> 0]

\* two requests, one per worker, and nothing else
NextPair ==
    \/ \E w \in Workers, c \in CarIds, r \in InputRanges :
          pc[w] = "idle" /\ Begin(w, "ip1", c, r[1], r[2], NoExtra)
    \/ \E w \in Workers : Step(w)

SpecPair == InitPair /\ [][NextPair]_vars

\* one request at a time, as time passes; the requests are for car A, from
\* Today or MaxDay to MaxDay
NextSeq ==
    \/ \E ip \in IPs, c \in {"A"}, r \in {<<Today, MaxDay>>, <<MaxDay, MaxDay>>} :
          /\ started < MaxSeqRequests
          /\ \A v \in Workers : pc[v] \in {"idle", "done"}
          /\ Begin("w1", ip, c, r[1], r[2], NoExtra)
    \/ Step("w1")
    \/ Tick

SpecSeq == Init /\ [][NextSeq]_vars

\* the JSON bodies of the admin's booking updates
NoData == [f \in {} |-> None]

UpdateBodies ==
    {[status |-> st] : st \in {"confirmed", "deleted"}}
    \cup {[deposit_status |-> "paid"], [deposit_status |-> "bogus"],
          [car_id |-> "B"],
          [car_id |-> "B", status |-> "cancelled", notes |-> "n"], NoData}

DeleteBodies == {[status |-> "deleted"], [status |-> "cancelled"]}

\* the body fields a client adds to its request
Extras == {NoExtra, [status |-> "confirmed", deposit_status |-> "paid"]}

\* the table holds one booking made earlier, on car B
InitAdmin ==
    /\ supabase \in BOOLEAN
    /\ cars = [c \in CarRows |-> [is_active |-> TRUE, price_per_day |-> price_per_day(c)]]
    /\ bookings = <<SeedRow("B", <<Today, Today + 1>>)>>
    /\ booking_locks = <<>>
    /\ rate_limit_storage = <<>>
    /\ now = 0
    /\ pc = [w \in Workers |-> "idle"]
    /\ req = [w \in Workers |-> NoRequest]
    /\ car = [w \in Workers |-> NoCar]
    /\ ret = [w \in Workers |-> NoResponse]
    /\ resp = [w \in Workers |-> NoResponse]
    /\ booking = [w \in Workers |-> 0]
    /\ started = 0
    /\ faults = [w \in Workers |-> {}]
    /\ admin = NoAdmin
    /\ avail = NoAvail
    /\ count = [w \in Workers |-> 0]

\* one request for car A, from Today to Today + 1, while the admin updates
\* and soft-deletes bookings
NextAdmin ==
    \/ \E x \in Extras :
          pc["w1"] = "idle" /\ Begin("w1", "ip1", "A", Today, Today + 1, x)
    \/ Step("w1")
    \/ \E id \in DOMAIN bookings \cup {Len(bookings) + 1}, data \in UpdateBodies,
          fails \in BOOLEAN : admin_update_booking(id, data, fails)
    \/ \E id \in DOMAIN bookings \cup {Len(bookings) + 1}, data \in DeleteBodies :
          admin_soft_delete_booking(id, data)

SpecAdmin == InitAdmin /\ [][NextAdmin]_vars

\* one request for car A while availability is asked for any car and range
NextAvail ==
    \/ \E r \in InputRanges :
          pc["w1"] = "idle" /\ Begin("w1", "ip1", "A", r[1], r[2], NoExtra)
    \/ Step("w1")
    \/ \E c \in CarIds, r \in InputRanges, fails \in BOOLEAN :
          get_car_availability(c, r[1], r[2], fails)
    \/ \E fails \in BOOLEAN : get_car_availability_check(fails)

SpecAvail == Init /\ [][NextAvail]_vars

\* both workers serve requests of one client for car A, one after another
\* on each worker, within one rate-limit window
NextRate ==
    \/ \E w \in Workers, r \in {<<Today, MaxDay>>, <<MaxDay, MaxDay>>} :
          /\ started < MaxSeqRequests
          /\ Begin(w, "ip1", "A", r[1], r[2], NoExtra)
    \/ \E w \in Workers : Step(w)

SpecRate == Init /\ [][NextRate]_vars

\* the status changes the admin makes in SpecCars
StatusBodies == {[status |-> st] : st \in {"cancelled", "completed", "confirmed"}}

\* two requests for car A from Today to Today + 1, one after the other, while
\* the admin changes booking statuses and updates or deletes cars
NextCars ==
    \/ \E w \in Workers :
          /\ pc[w] = "idle"
          /\ \A v \in Workers : pc[v] \in {"idle", "done"}
          /\ Begin(w, "ip1", "A", Today, Today + 1, NoExtra)
    \/ \E w \in Workers : Step(w)
    \/ \E id \in DOMAIN bookings, data \in StatusBodies :
          admin_update_booking(id, data, FALSE)
    \/ \E id \in DOMAIN bookings :
          admin_soft_delete_booking(id, [status |-> "deleted"])
    \/ \E c \in CarIds, b \in BOOLEAN : admin_update_car(c, [is_active |-> b])
    \/ \E c \in CarIds : admin_delete_car(c)
    \/ admin_delete_car_check
    \/ \E fails \in BOOLEAN : admin_delete_car_delete(fails)

SpecCars == Init /\ [][NextCars]_vars

(******************************* claims ************************************)

Holding(b) == b.status \in HoldingStatuses

\* half-open intervals [start, end) share a day
HalfOpenOverlap(s1, e1, s2, e2) == s1 < e2 /\ e1 > s2

Done(w) == pc[w] = "done"

\* C1: no two bookings on the same car that are both pending or confirmed
\* have overlapping half-open [start_date, end_date) intervals.
C1_NoDoubleBooking ==
    \A i, j \in 1..Len(bookings) :
        (i < j /\ bookings[i].car_id = bookings[j].car_id
               /\ Holding(bookings[i]) /\ Holding(bookings[j]))
        => ~HalfOpenOverlap(bookings[i].start_date, bookings[i].end_date,
                            bookings[j].start_date, bookings[j].end_date)

(* ---- two requests, one per worker (SpecPair) ---- *)

\* the rows that were in the table before the two requests
RowsBefore == {i \in 1..Len(bookings) : \A w \in Workers : booking[w] # i}

\* the availability query finds none of the earlier rows for w's request
FreeBeforehand(w) ==
    OverlapQuery(bookings, req[w].car_id, req[w].start_date, req[w].end_date)
        \cap RowsBefore = {}

\* w's request passes validation and names a car that is in the table, active
WellFormed(w) ==
    /\ validate_booking_data(req[w])
    /\ req[w].car_id \in DOMAIN cars
    /\ cars[req[w].car_id].is_active

\* the record store was missing or failed during w's request
StoreFailed(w) == ~supabase \/ faults[w] # {}

SameCar(w, v) == req[w].car_id = req[v].car_id

RequestsOverlap(w, v) ==
    HalfOpenOverlap(req[w].start_date, req[w].end_date,
                    req[v].start_date, req[v].end_date)

\* C2: of two create-booking requests on the same car with overlapping date
\* ranges, at most one returns 201 and at most one inserts a booking row.
C2_AtMostOneSucceeds ==
    (Done("w1") /\ Done("w2") /\ SameCar("w1", "w2") /\ RequestsOverlap("w1", "w2"))
    => /\ ~(resp["w1"].code = 201 /\ resp["w2"].code = 201)
       /\ ~(booking["w1"] # 0 /\ booking["w2"] # 0)

\* C3: of two create-booking requests on the same active car with
\* overlapping date ranges that are free beforehand, the record store not
\* failing, exactly one returns 201 and the other returns 409.
C3_ExactlyOneSucceeds ==
    (/\ Done("w1") /\ Done("w2")
     /\ SameCar("w1", "w2") /\ RequestsOverlap("w1", "w2")
     /\ \A w \in Workers : WellFormed(w) /\ FreeBeforehand(w) /\ ~StoreFailed(w))
    => \E w \in Workers : \E v \in Workers \ {w} :
          resp[w].code = 201 /\ resp[v].code = 409

\* C4: a create-booking request for an active car whose range the
\* availability check finds free is answered 201 whatever a request for a
\* different car is doing, the request being admitted by the rate limiter
\* and the record store not failing.
C4_NoCrossCarBlocking ==
    \A w \in Workers : \A v \in Workers \ {w} :
        (/\ Done(w) /\ ~SameCar(w, v)
         /\ WellFormed(w) /\ FreeBeforehand(w) /\ ~StoreFailed(w)
         /\ resp[w].code # 429)
        => resp[w].code = 201

\* both requests succeeded on different cars, w2 having inserted its row
\* before w1 did and still holding its lock entry after w1 has returned
C4_Witness ==
    /\ Done("w1") /\ resp["w1"].code = 201
    /\ pc["w2"] = "emails" /\ 0 < booking["w2"] /\ booking["w2"] < booking["w1"]
    /\ req["w1"].car_id = "A" /\ req["w2"].car_id = "B"
    /\ "B" \in DOMAIN booking_locks /\ "A" \notin DOMAIN booking_locks

\* C5: two create-booking requests on the same active car whose date ranges
\* overlap neither each other nor an existing holding booking both return
\* 201, the record store not failing.
C5_BothSucceed ==
    (/\ Done("w1") /\ Done("w2")
     /\ SameCar("w1", "w2") /\ ~RequestsOverlap("w1", "w2")
     /\ \A w \in Workers :
           /\ WellFormed(w) /\ ~StoreFailed(w)
           /\ \A i \in RowsBefore :
                 (bookings[i].car_id = req[w].car_id /\ Holding(bookings[i]))
                 => ~HalfOpenOverlap(bookings[i].start_date, bookings[i].end_date,
                                     req[w].start_date, req[w].end_date))
    => \A w \in Workers : resp[w].code = 201

(* ---- the lock test ---- *)

InCriticalSection(w) ==
    pc[w] \in {"fetch_car", "check_avail", "insert", "emails", "release_test",
               "release_del"}

LockedResponse == Response(409, "Car is being booked by another user")

\* w is at the lock test with a valid request and finds its car's entry
FindsLockHeld(w) ==
    /\ pc[w] = "lock_test"
    /\ validate_booking_data(req[w])
    /\ supabase
    /\ req[w].car_id \in DOMAIN booking_locks

\* C6: a create-booking request that finds the lock entry of its car present
\* returns 409 in that very step, with no record-store query or insert, and
\* leaves booking_locks as it was.
C6_LockedFailsFast ==
    [][\A w \in Workers :
          (FindsLockHeld(w) /\ pc'[w] # pc[w])
          => /\ pc'[w] = "done"
             /\ resp'[w] = LockedResponse
             /\ booking'[w] = 0
             /\ bookings' = bookings
             /\ booking_locks' = booking_locks]_vars

\* w was turned away while v is still inside with the lock entry in place
C6_Witness ==
    \E w \in Workers : \E v \in Workers \ {w} :
        /\ Done(w) /\ resp[w] = LockedResponse /\ booking[w] = 0
        /\ InCriticalSection(v) /\ SameCar(w, v)
        /\ req[v].car_id \in DOMAIN booking_locks

(* ---- the availability check ---- *)

\* w takes the availability step and the query itself does not fail
ChecksAvailability(w) ==
    /\ pc[w] = "check_avail"
    /\ pc'[w] # "check_avail"
    /\ faults'[w] = faults[w]

ReportedUnavailable(w) == pc'[w] # "insert"

\* the holding bookings on the car w asks for
HoldingRows(w) ==
    {i \in 1..Len(bookings) :
        bookings[i].car_id = req[w].car_id /\ Holding(bookings[i])}

\* C7: the availability check reports unavailable if and only if some
\* pending or confirmed booking on the car has
\* existing.start < end and existing.end > start (the query not failing).
C7_HalfOpenAvailability ==
    [][\A w \in Workers :
          ChecksAvailability(w)
          => (ReportedUnavailable(w)
              <=> \E i \in HoldingRows(w) :
                     HalfOpenOverlap(bookings[i].start_date, bookings[i].end_date,
                                     req[w].start_date, req[w].end_date))]_vars

\* the table that holds w's requested range as its only booking
AsExisting(w) ==
    <<[car_id |-> req[w].car_id, start_date |-> req[w].start_date,
       end_date |-> req[w].end_date, status |-> "pending"]>>

\* requesting the range of row i against w's range as the existing booking
ReverseRejected(w, i) ==
    ~check_car_availability_atomic(AsExisting(w), req[w].car_id,
         bookings[i].start_date, bookings[i].end_date, FALSE).ok

\* row i and w's range meet at a boundary date
Abut(w, i) ==
    \/ bookings[i].end_date = req[w].start_date
    \/ req[w].end_date = bookings[i].start_date

\* C8: the overlap decision is symmetric (a request is rejected iff some
\* holding booking, requested against it, would be rejected) and a request
\* that only abuts the holding bookings is accepted.
C8_SymmetricHalfOpen ==
    [][\A w \in Workers :
          ChecksAvailability(w)
          => /\ ReportedUnavailable(w) <=> \E i \in HoldingRows(w) : ReverseRejected(w, i)
             /\ (\A i \in HoldingRows(w) : Abut(w, i)) => ~ReportedUnavailable(w)]_vars

(* ---- the rate limiter, one request at a time (SpecSeq) ---- *)

\* the origin of w's request has a bucket whose window has not passed
InWindow(w) ==
    /\ req[w].ip \in DOMAIN rate_limit_storage
    /\ ~(now > rate_limit_storage[req[w].ip].reset_time)

\* requests of the origin admitted so far in the current window
CountInWindow(w) ==
    IF InWindow(w) THEN rate_limit_storage[req[w].ip].count ELSE 0

\* C9: the limiter admits a request iff fewer than N requests of its origin
\* were admitted in the current window, counts every admitted request once,
\* rejects the others with 429 leaving the bucket alone, and the first
\* request after the reset time starts a new window with the count at 0.
C9_RateLimitWindow ==
    [][\A w \in Workers :
          /\ (pc[w] = "rate_test" /\ pc'[w] # "rate_test")
             => /\ pc'[w] = "rate_load" <=> CountInWindow(w) < rate_limit_max_requests
                /\ pc'[w] # "rate_load"
                   => /\ resp'[w].code = 429
                      /\ rate_limit_storage' = rate_limit_storage
                /\ ~InWindow(w)
                   => rate_limit_storage'[req[w].ip] =
                         [count |-> 0, reset_time |-> now + rate_limit_window]
                /\ InWindow(w)
                   => rate_limit_storage'[req[w].ip] = rate_limit_storage[req[w].ip]
          /\ (pc[w] = "rate_inc" /\ pc'[w] # "rate_inc")
             => /\ rate_limit_storage'[req[w].ip].count
                      = rate_limit_storage[req[w].ip].count + 1
                /\ rate_limit_storage'[req[w].ip].count <= rate_limit_max_requests
                /\ rate_limit_storage'[req[w].ip].reset_time
                      = rate_limit_storage[req[w].ip].reset_time]_vars

\* ip1 alone sent N + 2 requests from time 0 on: N were admitted, one was
\* rejected, and the last one, after the reset time, opened a new window
C9_Witness ==
    /\ started = rate_limit_max_requests + 2
    /\ Done("w1") /\ resp["w1"].code # 429
    /\ DOMAIN rate_limit_storage = {"ip1"}
    /\ rate_limit_storage["ip1"] =
          [count |-> 1, reset_time |-> 2 * rate_limit_window + 1]

(* ---- rows and responses ---- *)

\* C10: a create-booking request has inserted a booking row if and only if
\* it returns 201.
C10_RowIffCreated ==
    \A w \in Workers : Done(w) => (booking[w] # 0 <=> resp[w].code = 201)

(* ---- record-store errors and emails (SpecPair) ---- *)

\* C11: a create-booking request during which a record-store call (the car
\* fetch, the availability query or the insert) failed is answered with a
\* 5xx response, never 409 or 404, and inserts no booking row.
C11_StoreErrorIsFailure ==
    \A w \in Workers :
        (Done(w) /\ faults[w] # {})
        => /\ resp[w].code \in 500..599
           /\ booking[w] = 0

\* C12: a create-booking request whose insert succeeded returns 201 and its
\* row is in the table, whatever the two emails did.
C12_InsertedReturnsCreated ==
    \A w \in Workers :
        (Done(w) /\ booking[w] # 0)
        => /\ resp[w].code = 201
           /\ booking[w] \in DOMAIN bookings
           /\ bookings[booking[w]].car_id = req[w].car_id

(* ---- cars and their bookings (SpecCars) ---- *)

\* C13: every pending or confirmed booking references a car that is in the
\* cars table.
C13_HoldingBookingHasCar ==
    \A i \in DOMAIN bookings :
        Holding(bookings[i]) => bookings[i].car_id \in DOMAIN cars

\* the admin's delete handler takes the step that leaves position p
AdminLeaves(p) == admin.pc = p /\ admin'.pc # p

\* C14: no step deactivates or removes an active car that has a pending or
\* confirmed booking; a delete that finds no such booking goes on to remove
\* the car and answers 200 unless the record store fails.
C14_CarWithHoldingKept ==
    [][/\ \A c \in DOMAIN cars :
             (ExistingBookings(bookings, c) # {} /\ cars[c].is_active)
             => (c \in DOMAIN cars' /\ cars'[c] = cars[c])
       /\ (AdminLeaves("check_bookings")
           /\ ExistingBookings(bookings, admin.car_id) = {})
          => admin'.pc = "delete"
       /\ AdminLeaves("delete")
          => /\ admin'.code \in {200, 500}
             /\ admin'.code = 200 <=> admin.car_id \notin DOMAIN cars']_vars

\* C15: the availability check of a create-booking request reports
\* unavailable only if a pending or confirmed booking on the car meets the
\* requested range: cancelled, completed and deleted bookings never block.
C15_OnlyHoldingBlocks ==
    [][\A w \in Workers :
          (ChecksAvailability(w) /\ ReportedUnavailable(w))
          => \E i \in HoldingRows(w) :
                /\ bookings[i].start_date <= req[w].end_date
                /\ bookings[i].end_date >= req[w].start_date]_vars

\* a request has passed the availability check on a range that overlaps a
\* cancelled, completed or deleted booking on its car
C15_Witness ==
    \E w \in Workers :
        /\ pc[w] = "insert"
        /\ Len(bookings) = 1
        /\ bookings[1].car_id = req[w].car_id
        /\ bookings[1].status \in {"cancelled", "completed", "deleted"}
        /\ HalfOpenOverlap(bookings[1].start_date, bookings[1].end_date,
                           req[w].start_date, req[w].end_date)

(* ---- the admin's booking updates (SpecAdmin) ---- *)

\* a step of an admin handler: no request worker moves
AdminStep == pc' = pc

\* the step answers an admin request of the given kind
Answers(op) == AdminStep /\ admin'.pc = "idle" /\ admin'.op = op

\* the body of the admin request just answered names the given status
CarriesStatus(a, st) == "status" \in DOMAIN a.data /\ a.data.status = st

C17_DeletedOnlyBySoftDelete ==
    [][/\ \A i \in DOMAIN bookings :
             (bookings[i].status # "deleted" /\ bookings'[i].status = "deleted")
             => (Answers("admin_soft_delete_booking") /\ admin'.booking_id = i)
       /\ (Answers("admin_update_booking") /\ CarriesStatus(admin', "deleted")
           /\ supabase /\ admin'.booking_id \in DOMAIN bookings)
          => (admin'.code = 400 /\ bookings' = bookings)]_vars

\* a generic update carrying status = deleted has been rejected, the booking
\* keeping its status
C17_Witness ==
    /\ admin.op = "admin_update_booking"
    /\ CarriesStatus(admin, "deleted")
    /\ admin.code = 400
    /\ admin.booking_id \in DOMAIN bookings
    /\ bookings[admin.booking_id].status = "confirmed"

\* the fields of a booking the admin may edit
EditableFields == {"status", "deposit_status", "notes"}

\* row with the editable fields of the body data written into it
Edited(row, data) ==
    [f \in DOMAIN row |->
        IF f \in EditableFields \cap DOMAIN data THEN data[f] ELSE row[f]]

\* C18: an admin booking update leaves every other booking as it was and
\* changes the targeted booking at most in status, deposit_status and notes,
\* to the values of the body; other body fields have no effect.
C18_UpdateFrame ==
    [][Answers("admin_update_booking")
       => /\ Len(bookings') = Len(bookings)
          /\ \A i \in DOMAIN bookings :
                IF i = admin'.booking_id /\ admin'.code = 200
                THEN bookings'[i] = Edited(bookings[i], admin'.data)
                ELSE bookings'[i] = bookings[i]]_vars

\* an update whose body carried car_id next to status and notes was applied
\* to the second of two bookings
C18_Witness ==
    /\ admin.op = "admin_update_booking"
    /\ admin.code = 200
    /\ "car_id" \in DOMAIN admin.data
    /\ Len(bookings) = 2
    /\ admin.booking_id = 2
    /\ bookings[2].car_id = "A"
    /\ bookings[2].status = "cancelled"
    /\ bookings[2].notes = "n"
    /\ bookings[1].status = "confirmed"

\* C19: the row a create-booking request inserts has status pending and
\* deposit_status pending, whatever the request body carries.
C19_CreatedPending ==
    [][\A w \in Workers :
          (pc[w] = "insert" /\ pc'[w] = "emails")
          => /\ Len(bookings') = Len(bookings) + 1
             /\ bookings'[Len(bookings')].status = "pending"
             /\ bookings'[Len(bookings')].deposit_status = "pending"]_vars

\* a request whose body carried status and deposit_status has inserted its
\* row, which no admin request has touched
C19_Witness ==
    \E w \in Workers :
        /\ pc[w] = "emails"
        /\ req[w].extra.status = "confirmed"
        /\ req[w].extra.deposit_status = "paid"
        /\ admin = NoAdmin
        /\ bookings[booking[w]].status = "pending"
        /\ bookings[booking[w]].deposit_status = "pending"

\* C20: the booking row a create-booking request inserted holds
\* total_price, the car's daily rate times the number of days, and
\* rental_days, end_date minus start_date in days.
C20_DerivedFieldsPersisted ==
    \A w \in Workers :
        booking[w] # 0
        => LET row == bookings[booking[w]]
           IN  /\ "total_price" \in DOMAIN row
               /\ row.total_price =
                     price_per_day(row.car_id) * (row.end_date - row.start_date)
               /\ "rental_days" \in DOMAIN row
               /\ row.rental_days = row.end_date - row.start_date

(* ---- the availability endpoint (SpecAvail) ---- *)

\* the last availability request was answered: available, with a price
Quoted == avail.pc = "idle" /\ avail.code = 200 /\ avail.is_available

\* C21: for start < end the availability endpoint returns the day count
\* end - start and the price daily rate * days, and a create-booking request
\* for the same car and dates returns a row with the same price and the same
\* day count.
C21_SamePriceAndDays ==
    /\ (Quoted /\ avail.start_date < avail.end_date)
       => /\ avail.rental_days = avail.end_date - avail.start_date
          /\ avail.total_price = avail.price_per_day * avail.rental_days
    /\ \A w \in Workers :
          (/\ Quoted
           /\ booking[w] # 0
           /\ req[w].car_id = avail.car_id
           /\ req[w].start_date = avail.start_date
           /\ req[w].end_date = avail.end_date)
          => LET row == bookings[booking[w]]
             IN  /\ row.total_price = avail.total_price
                 /\ "rental_days" \in DOMAIN row
                 /\ row.rental_days = avail.rental_days

\* a step of the availability handler
AvailStep == avail' # avail

\* C22: a step of the availability handler changes no booking row, lock
\* entry, rate-limit bucket or car, and its answer is 200, 404, 500 or 503
\* and, when the overlap query ran, is decided by that query alone, whether
\* or not the car's lock entry is present.
C22_AvailabilityReadOnly ==
    [][AvailStep
       => /\ UNCHANGED <<bookings, booking_locks, rate_limit_storage, cars>>
          /\ avail'.pc = "idle"
             => /\ avail'.code \in {200, 404, 500, 503}
                /\ (supabase /\ avail.pc = "idle" /\ avail'.code = 404)
                   => (avail'.car_id \notin DOMAIN cars
                       \/ ~cars[avail'.car_id].is_active)
                /\ avail.pc = "check"
                   => /\ avail'.code = 200
                      /\ avail'.error # "Error checking availability"
                         => (avail'.is_available
                             <=> OverlapQuery(bookings, avail.car_id,
                                     avail.start_date, avail.end_date) = {})]_vars

\* availability was answered from the row a request has inserted while that
\* request, at the emails, still holds the car's lock entry
C22_Witness ==
    \E w \in Workers :
        /\ pc[w] = "emails"
        /\ req[w].car_id \in DOMAIN booking_locks
        /\ avail.pc = "idle" /\ avail.code = 200
        /\ avail.car_id = req[w].car_id
        /\ ~avail.is_available
        /\ avail.error = "Car is booked for overlapping dates"
        /\ Len(bookings) = 1 /\ booking[w] = 1

(* ---- rental duration, the lock's life cycle (Spec) ---- *)

\* C23: every row a create-booking request has inserted has a duration
\* end - start of at least MIN_RENTAL_DAYS and at most the maximum rental
\* days.
C23_DurationWithinLimits ==
    \A w \in Workers :
        booking[w] # 0
        => LET row == bookings[booking[w]]
           IN  /\ row.end_date - row.start_date >= MIN_RENTAL_DAYS
               /\ row.end_date - row.start_date <= MaxRentalDays

\* worker w is at the car fetch, the availability check or the insert
InCheckThenInsert(w) == pc[w] \in {"fetch_car", "check_avail", "insert"}

\* C24: at no time are two create-booking requests for one car both between
\* the car fetch and the insert.
C24_OneInCriticalSection ==
    \A w, v \in Workers :
        (w # v /\ InCheckThenInsert(w) /\ InCheckThenInsert(v))
        => req[w].car_id # req[v].car_id

\* worker w has stored the lock entry and has not answered yet
HasAcquired(w) ==
    pc[w] \in {"fetch_car", "check_avail", "insert", "emails",
               "release_test", "release_del"}

\* C25: when a request that stored the lock entry answers (201, 404, 409 or
\* 500) its car has no entry in booking_locks, and booking_locks has an
\* entry for a car only while a request for that car that has stored the
\* entry has not answered yet.
C25_LockReleasedOnEveryExit ==
    /\ [](\A c \in DOMAIN booking_locks :
             \E w \in Workers : HasAcquired(w) /\ req[w].car_id = c)
    /\ [][\A w \in Workers :
             (HasAcquired(w) /\ pc'[w] = "done")
             => /\ resp'[w].code \in {201, 404, 409, 500}
                /\ req[w].car_id \notin DOMAIN booking_locks']_vars

\* both requests stored the entry for a car without a row and were answered
\* 404, and no entry is left
C25_Witness ==
    /\ \A w \in Workers : pc[w] = "done" /\ resp[w].code = 404
    /\ booking_locks = <<>>

\* C26: no request is at the notification emails while booking_locks has an
\* entry for its car.
C26_ReleasedBeforeEmails ==
    \A w \in Workers :
        pc[w] = "emails" => req[w].car_id \notin DOMAIN booking_locks

\* C27: a request deletes the lock entry of its car only when no other
\* request for that car is between the car fetch and the emails, having
\* stored the entry itself.
C27_ReleaseOwnEntryOnly ==
    [][\A w \in Workers :
          (pc[w] = "release_del" /\ booking_locks' # booking_locks)
          => ~\E v \in Workers \ {w} :
                /\ req[v].car_id = req[w].car_id
                /\ pc[v] \in {"fetch_car", "check_avail", "insert", "emails"}]_vars

(* ---- the rate limiter under concurrency and retries ---- *)

\* C28: whatever the interleaving of the requests of one origin, the stored
\* count of its bucket never exceeds the maximum.
C28_CountNeverExceedsMax ==
    \A ip \in DOMAIN rate_limit_storage :
        rate_limit_storage[ip].count <= rate_limit_max_requests

\* C29: a request that passes the limiter adds exactly one to the count of
\* its origin, whatever its outcome, its other steps leave every bucket
\* alone, and a request answered 429 leaves count and reset time unchanged.
C29_EveryAdmittedRequestCounts ==
    [][\A w \in Workers :
          /\ (pc[w] = "rate_inc" /\ pc'[w] # "rate_inc")
             => rate_limit_storage' =
                   [rate_limit_storage EXCEPT ![req[w].ip].count = @ + 1]
          /\ (pc[w] = "rate_test" /\ pc'[w] = "done")
             => /\ resp'[w].code = 429
                /\ rate_limit_storage' = rate_limit_storage
          /\ (pc[w] \notin {"rate_test", "rate_inc"} /\ pc'[w] # pc[w])
             => rate_limit_storage' = rate_limit_storage]_vars

(* ---- progress (SpecLive) ---- *)

\* C30: every request that a worker has started is answered in the end, and
\* every lock entry that is present is removed in the end.
C30_EveryRequestAnsweredLockFreed ==
    /\ \A w \in Workers : (pc[w] \notin {"idle", "done"}) ~> (pc[w] = "done")
    /\ \A c \in CarIds :
          (c \in DOMAIN booking_locks) ~> (c \notin DOMAIN booking_locks)

\* both requests for one car were answered, one of them with 201 after it
\* stored the lock entry, and no entry is left
C30_Witness ==
    /\ \A w \in Workers : pc[w] = "done" /\ resp[w].code # 0
    /\ req["w1"].car_id = req["w2"].car_id
    /\ \E w \in Workers : resp[w].code = 201 /\ booking[w] # 0
    /\ booking_locks = <<>>

====
